---- MODULE Spec2Model ----
(***************************************************************************)
(* A model of Homework 1/main.cpp: the batch driver that reads a JSON      *)
(* configuration, and for every entry reads a CSV table, filters the       *)
(* configured columns, coerces the cells to numbers, writes a summary      *)
(* file, optionally min-max normalizes the series and writes a             *)
(* transformed file.                                                       *)
(*                                                                         *)
(* Text is a sequence of one-character strings, so that substring search,  *)
(* splitting on ',' and number parsing are computed, not assumed.          *)
(* A double has two forms.  In the specifications of main it is the exact  *)
(* rational [n, d] it stands for (d > 0, lowest terms): the cells there    *)
(* are small whole numbers, whose sums and products are exact and whose    *)
(* printed quotients agree with those of the doubles.  In the column       *)
(* specification, which calls computeMeanAndStdDev and normalizeColumn on  *)
(* their own, it is the IEEE-754 binary64 value [sign, m, e], and every    *)
(* operation rounds to nearest, ties to even (the operations evaluated one *)
(* by one, as a build without fused multiply-add does).  A standard        *)
(* deviation is kept as the number under its square root.                  *)
(***************************************************************************)
EXTENDS Integers, Sequences, FiniteSets, TLC

(***************************************************************************)
(* Bounds of the model.                                                    *)
(***************************************************************************)
\* most entries of a configuration document of the batch specification
MaxEntries == 2
\* most data lines of a table file
MaxRows == 2
\* largest lines_to_read of an entry
MaxLines == 2
\* most configured columns of an entry of the filter specification
MaxCols == 2
\* most terms of do_not_include of an entry of the filter specification
MaxTerms == 2
\* most elements of a vector of the column specification, and most data
\* lines of a table of the cell specification
MaxSeries == 3
\* most calls of the column specification
MaxCalls == 2

(***************************************************************************)
(* Text.                                                                   *)
(***************************************************************************)
\* std::string::npos
NPOS == -1

\* the string a + b
Cat(a, b) == a \o b

\* std::string::substr(pos, n), pos 0-based, n = NPOS for "to the end"
Substr(s, pos, n) ==
    IF n = NPOS THEN SubSeq(s, pos + 1, Len(s))
    ELSE SubSeq(s, pos + 1, IF pos + n > Len(s) THEN Len(s) ELSE pos + n)

\* does t occur in s at 0-based position p
OccursAt(s, t, p) ==
    /\ p + Len(t) <= Len(s)
    /\ \A k \in 1..Len(t) : s[p + k] = t[k]

\* std::string::find(t): the least 0-based position where t occurs, or NPOS
Find(s, t) ==
    LET hits == {p \in 0..Len(s) : OccursAt(s, t, p)}
    IN  IF hits = {} THEN NPOS
        ELSE CHOOSE p \in hits : \A q \in hits : p <= q

\* the code of a character in the execution character set (ASCII order:
\* digits before upper case before '_' before lower case)
CharCode(c) ==
    CASE c = "1" -> 49
      [] c = "2" -> 50
      [] c = "A" -> 65
      [] c = "B" -> 66
      [] c = "a" -> 97
      [] c = "b" -> 98
      [] OTHER -> 127

\* std::less<std::string>: lexicographic comparison by character code
RECURSIVE StrLess(_, _)
StrLess(s, t) ==
    IF t = << >> THEN FALSE
    ELSE IF s = << >> THEN TRUE
    ELSE IF CharCode(Head(s)) < CharCode(Head(t)) THEN TRUE
    ELSE IF CharCode(Head(s)) > CharCode(Head(t)) THEN FALSE
    ELSE StrLess(Tail(s), Tail(t))

(***************************************************************************)
(* Numbers.                                                                *)
(***************************************************************************)
Abs(x) == IF x < 0 THEN -x ELSE x

RECURSIVE Gcd(_, _)
Gcd(a, b) == IF b = 0 THEN a ELSE Gcd(b, a % b)

\* the rational n/d in lowest terms with a positive denominator (d # 0)
Rat(n, d) ==
    LET g == Gcd(Abs(n), Abs(d))
        s == IF d < 0 THEN -1 ELSE 1
    IN  [n |-> (s * n) \div g, d |-> (s * d) \div g]

Zero == Rat(0, 1)
RatAdd(x, y) == Rat(x.n * y.d + y.n * x.d, x.d * y.d)
RatSub(x, y) == Rat(x.n * y.d - y.n * x.d, x.d * y.d)
RatMul(x, y) == Rat(x.n * y.n, x.d * y.d)
\* x / y, y # 0
RatDiv(x, y) == Rat(x.n * y.d, x.d * y.n)
RatLess(x, y) == x.n * y.d < y.n * x.d

Digits == <<"0", "1", "2", "3", "4", "5", "6", "7", "8", "9">>

IsDigit(c) == \E k \in 1..10 : Digits[k] = c

DigitVal(c) == (CHOOSE k \in 1..10 : Digits[k] = c) - 1

\* the decimal text of a natural number, as operator<< writes an integer
RECURSIVE NatText(_)
NatText(n) ==
    IF n < 10 THEN <<Digits[n + 1]>>
    ELSE Append(NatText(n \div 10), Digits[(n % 10) + 1])

\* the decimal text of an int
IntText(n) == IF n < 0 THEN <<"-">> \o NatText(-n) ELSE NatText(n)

\* 10^k, k >= 0
RECURSIVE Pow10(_)
Pow10(k) == IF k = 0 THEN 1 ELSE 10 * Pow10(k - 1)

(***************************************************************************)
(* size_t, 64 bits wide, as four 16-bit limbs, most significant first      *)
(* (2^64 exceeds the integers of the model checker).                       *)
(***************************************************************************)
LimbBase == 65536

\* the conversion int -> size_t of `size_t param_count = lines_to_read;`:
\* the value modulo 2^64 (two's complement for a negative int)
ToSizeT(n) ==
    LET lo == n % LimbBase
        hi == (n - lo) \div LimbBase
    IN  IF n >= 0 THEN <<0, 0, hi, lo>>
        ELSE <<LimbBase - 1, LimbBase - 1, hi % LimbBase, lo>>

\* one step of the long division of a limb sequence by 10:
\* [q |-> the quotient limbs, r |-> the remainder]
RECURSIVE LimbsDiv10(_, _)
LimbsDiv10(limbs, carry) ==
    IF limbs = << >> THEN [q |-> << >>, r |-> carry]
    ELSE LET cur  == carry * LimbBase + Head(limbs)
             rest == LimbsDiv10(Tail(limbs), cur % 10)
         IN  [q |-> <<cur \div 10>> \o rest.q, r |-> rest.r]

\* the decimal text of a size_t, as operator<< writes it
RECURSIVE SizeTText(_)
SizeTText(limbs) ==
    LET d == LimbsDiv10(limbs, 0)
    IN  IF \A k \in 1..Len(d.q) : d.q[k] = 0 THEN <<Digits[d.r + 1]>>
        ELSE Append(SizeTText(d.q), Digits[d.r + 1])

(***************************************************************************)
(* Formatting of doubles.                                                  *)
(***************************************************************************)
\* floor(x) for a rational x
RatFloor(x) == x.n \div x.d

\* the integer nearest to x, a tie going to the even one (printf rounds the
\* exact binary value, and the only exact ties are themselves doubles)
RoundHalfEven(x) ==
    LET f    == RatFloor(x)
        twice == RatSub(RatMul(Rat(2, 1), x), Rat(2 * f, 1))
    IN  IF twice.n < twice.d THEN f
        ELSE IF twice.n > twice.d THEN f + 1
        ELSE IF f % 2 = 0 THEN f ELSE f + 1

\* the text of h hundredths: sign, integer part, '.', two digits
HundredthsText(h) ==
    LET a == Abs(h)
    IN  (IF h < 0 THEN <<"-">> ELSE << >>)
        \o NatText(a \div 100)
        \o <<".", Digits[((a \div 10) % 10) + 1], Digits[(a % 10) + 1]>>

\* operator<< of a double under std::fixed << std::setprecision(2)
Fixed2(x) == HundredthsText(RoundHalfEven(RatMul(Rat(100, 1), x)))

\* 100 * sqrt(v) rounds to at most k: 40000 v < (2k+1)^2
RoundsBelow(v, k) == 40000 * v.n < (2 * k + 1) * (2 * k + 1) * v.d

\* the integer nearest to 100 * sqrt(v), v >= 0: the least k >= from with
\* RoundsBelow(v, k), searched in strides of step, then of step / 10
RECURSIVE SqrtHundredths(_, _, _)
SqrtHundredths(v, from, step) ==
    IF ~RoundsBelow(v, from + step - 1) THEN SqrtHundredths(v, from + step, step)
    ELSE IF step = 1 THEN from
    ELSE SqrtHundredths(v, from, step \div 10)

\* operator<< of sqrt(v) under std::fixed << std::setprecision(2)
Fixed2Sqrt(v) == HundredthsText(SqrtHundredths(v, 0, 100))

\* a text without its trailing '0' characters
RECURSIVE StripZeros(_)
StripZeros(t) ==
    IF t # << >> /\ t[Len(t)] = "0" THEN StripZeros(SubSeq(t, 1, Len(t) - 1))
    ELSE t

\* the number of decimals %g with precision 6 keeps for 0 < x < 1:
\* 6 plus the number of zeros between the point and the first digit
RECURSIVE Decimals6(_, _)
Decimals6(x, p) ==
    IF x.n * Pow10(p - 5) >= x.d THEN p ELSE Decimals6(x, p + 1)

\* k as exactly p decimal digits, zero-padded on the left
RECURSIVE PadDigits(_, _)
PadDigits(k, p) ==
    IF p = 0 THEN << >>
    ELSE Append(PadDigits(k \div 10, p - 1), Digits[(k % 10) + 1])

\* the writer's format, were the stream set to std::fixed << std::setprecision(2)
DefaultFormatFixed(x) == Fixed2(x)

\* operator<< of a double on a stream in its default state (%g, precision
\* 6), for the values the writer is given: 0 <= x <= 1, x = 0 or x >= 0.0001
DefaultFormat(x) ==
    IF x.n = 0 THEN <<"0">>
    ELSE IF x.n >= x.d THEN <<"1">>
    ELSE LET p == Decimals6(x, 6)
             k == RoundHalfEven(RatMul(Rat(Pow10(p), 1), x))
         IN  IF k = Pow10(p) THEN <<"1">>
             ELSE <<"0", ".">> \o StripZeros(PadDigits(k, p))

(***************************************************************************)
(* readCSV.                                                                *)
(***************************************************************************)
\* the inner loop of readCSV: std::getline(sstream, cell, ',') until it
\* fails; a last cell is pushed only if characters or a ',' preceded the end
RECURSIVE SplitCells(_, _, _)
SplitCells(line, cell, row) ==
    IF line = << >> THEN (IF cell = << >> THEN row ELSE Append(row, cell))
    ELSE IF Head(line) = "," THEN SplitCells(Tail(line), << >>, Append(row, cell))
    ELSE SplitCells(Tail(line), Append(cell, Head(line)), row)

\* readCSV on a file [open, lines]: one row per line, no row when the file
\* cannot be opened
readCSV(file) ==
    IF ~file.open THEN << >>
    ELSE [k \in 1..Len(file.lines) |-> SplitCells(file.lines[k], << >>, << >>)]

(***************************************************************************)
(* std::stod.                                                              *)
(***************************************************************************)
RECURSIVE SkipSpaces(_)
SkipSpaces(s) == IF s # << >> /\ Head(s) = " " THEN SkipSpaces(Tail(s)) ELSE s

\* the length of the longest prefix of s made of digits
RECURSIVE DigitRun(_)
DigitRun(s) == IF s # << >> /\ IsDigit(Head(s)) THEN 1 + DigitRun(Tail(s)) ELSE 0

\* the number a digit string writes (0 for the empty string)
RECURSIVE DigitsValue(_)
DigitsValue(s) ==
    IF s = << >> THEN 0
    ELSE 10 * DigitsValue(SubSeq(s, 1, Len(s) - 1)) + DigitVal(s[Len(s)])

\* floor(log10(x)) for a rational x > 0
RECURSIVE Log10Floor(_)
Log10Floor(x) ==
    IF x.n < x.d THEN Log10Floor(Rat(10 * x.n, x.d)) - 1
    ELSE IF x.n >= 10 * x.d THEN Log10Floor(Rat(x.n, 10 * x.d)) + 1
    ELSE 0

\* the largest decimal exponent of a finite double (DBL_MAX_10_EXP)
MaxExp10 == 308

\* a text without one leading sign character
Unsigned(s) == IF s # << >> /\ Head(s) \in {"-", "+"} THEN Tail(s) ELSE s

IsNegative(s) == s # << >> /\ Head(s) = "-"

\* the digits at the start of s, and what follows them
LeadingDigits(s) == SubSeq(s, 1, DigitRun(s))
AfterDigits(s) == SubSeq(s, DigitRun(s) + 1, Len(s))

\* the digits of a fraction part at the start of s, and what follows it
FractionDigits(s) ==
    IF s # << >> /\ Head(s) = "." THEN LeadingDigits(Tail(s)) ELSE << >>
AfterFraction(s) ==
    IF s # << >> /\ Head(s) = "." THEN AfterDigits(Tail(s)) ELSE s

\* the exponent part at the start of s: 'e' or 'E', an optional sign and
\* at least one digit; 0 when there is none
Exponent(s) ==
    IF s # << >> /\ Head(s) \in {"e", "E"} /\ DigitRun(Unsigned(Tail(s))) > 0
    THEN (IF IsNegative(Tail(s)) THEN -1 ELSE 1)
         * DigitsValue(LeadingDigits(Unsigned(Tail(s))))
    ELSE 0

\* the outcome of std::stod for a sign, the digits before and after the
\* point and an exponent: [kind |-> "value", v |-> the number], or the
\* exception thrown
StodValue(neg, int, frac, e) ==
    LET mant == Rat(DigitsValue(int \o frac), Pow10(Len(frac)))
        abs  == IF e >= 0 THEN RatMul(mant, Rat(Pow10(e), 1))
                ELSE RatMul(mant, Rat(1, Pow10(-e)))
    IN  IF Len(int) + Len(frac) = 0 THEN [kind |-> "invalid_argument", v |-> Zero]
        ELSE IF mant.n = 0 THEN [kind |-> "value", v |-> Zero]
        ELSE IF Log10Floor(mant) + e > MaxExp10 \/ Log10Floor(mant) + e < -MaxExp10
             THEN [kind |-> "out_of_range", v |-> Zero]
        ELSE [kind |-> "value", v |-> IF neg THEN RatSub(Zero, abs) ELSE abs]

\* std::stod(cell): leading spaces, an optional sign, digits with an
\* optional fraction, an optional exponent; what follows is ignored.  The
\* hexadecimal, inf and nan forms and values within a factor 10 of the
\* double range limits are not among the cells of this model.
Stod(cell) ==
    LET u == Unsigned(SkipSpaces(cell))
    IN  StodValue(IsNegative(SkipSpaces(cell)), LeadingDigits(u),
                  FractionDigits(AfterDigits(u)),
                  Exponent(AfterFraction(AfterDigits(u))))

(***************************************************************************)
(* Natural numbers beyond the integers of the model checker: the limbs of  *)
(* a number are its digits in base 2^LimbBits, least significant first,    *)
(* without a zero at the top; zero is the empty sequence.                  *)
(***************************************************************************)
LimbBits == 14

BigBase == 2 ^ LimbBits

RECURSIVE BigTrim(_)
BigTrim(a) ==
    IF a # << >> /\ a[Len(a)] = 0 THEN BigTrim(SubSeq(a, 1, Len(a) - 1)) ELSE a

RECURSIVE BigFromNat(_)
BigFromNat(n) ==
    IF n = 0 THEN << >> ELSE <<n % BigBase>> \o BigFromNat(n \div BigBase)

Limb(a, i) == IF i <= Len(a) THEN a[i] ELSE 0

Rest(a) == IF a = << >> THEN << >> ELSE Tail(a)

RECURSIVE BigAddC(_, _, _)
BigAddC(a, b, carry) ==
    IF a = << >> /\ b = << >> THEN (IF carry = 0 THEN << >> ELSE <<carry>>)
    ELSE <<(Limb(a, 1) + Limb(b, 1) + carry) % BigBase>>
         \o BigAddC(Rest(a), Rest(b), (Limb(a, 1) + Limb(b, 1) + carry) \div BigBase)

BigAdd(a, b) == BigAddC(a, b, 0)

RECURSIVE BigSubB(_, _, _)
BigSubB(a, b, borrow) ==
    IF a = << >> THEN << >>
    ELSE <<(a[1] - Limb(b, 1) - borrow) % BigBase>>
         \o BigSubB(Tail(a), Rest(b), IF a[1] - Limb(b, 1) - borrow < 0 THEN 1 ELSE 0)

\* a - b, for a >= b
BigSub(a, b) == BigTrim(BigSubB(a, b, 0))

RECURSIVE BigCmpFrom(_, _, _)
BigCmpFrom(a, b, i) ==
    IF i = 0 THEN 0
    ELSE IF a[i] < b[i] THEN -1
    ELSE IF a[i] > b[i] THEN 1
    ELSE BigCmpFrom(a, b, i - 1)

\* -1, 0 or 1 as a < b, a = b or a > b
BigCmp(a, b) ==
    IF Len(a) < Len(b) THEN -1
    ELSE IF Len(a) > Len(b) THEN 1
    ELSE BigCmpFrom(a, b, Len(a))

RECURSIVE BigMulSmallC(_, _, _)
BigMulSmallC(a, k, carry) ==
    IF a = << >> THEN (IF carry = 0 THEN << >> ELSE <<carry>>)
    ELSE <<(a[1] * k + carry) % BigBase>>
         \o BigMulSmallC(Tail(a), k, (a[1] * k + carry) \div BigBase)

\* a * k, for 0 <= k < BigBase
BigMulSmall(a, k) == IF k = 0 THEN << >> ELSE BigMulSmallC(a, k, 0)

\* a * BigBase^k
BigShiftLimbs(a, k) == IF a = << >> THEN << >> ELSE [i \in 1..k |-> 0] \o a

RECURSIVE BigMul(_, _)
BigMul(a, b) ==
    IF a = << >> \/ b = << >> THEN << >>
    ELSE BigAdd(BigMulSmall(a, b[1]), BigShiftLimbs(BigMul(a, Tail(b)), 1))

\* the largest d < BigBase with d * b <= r, found bit by bit (r < BigBase * b)
RECURSIVE QuotientDigit(_, _, _, _)
QuotientDigit(r, b, d, bit) ==
    IF bit = 0 THEN d
    ELSE IF BigCmp(BigMulSmall(b, d + bit), r) <= 0
         THEN QuotientDigit(r, b, d + bit, bit \div 2)
         ELSE QuotientDigit(r, b, d, bit \div 2)

\* long division of a by b # 0, the limbs of a taken from the top, r being
\* the remainder so far: [q, r] with the limbs of the quotient untrimmed
RECURSIVE BigDivModFrom(_, _, _)
BigDivModFrom(a, b, r) ==
    IF a = << >> THEN [q |-> << >>, r |-> r]
    ELSE LET cur  == BigTrim(<<a[Len(a)]>> \o r)
             d    == QuotientDigit(cur, b, 0, BigBase \div 2)
             rest == BigDivModFrom(SubSeq(a, 1, Len(a) - 1), b,
                                   BigSub(cur, BigMulSmall(b, d)))
         IN  [q |-> rest.q \o <<d>>, r |-> rest.r]

\* the limbs of the quotient trimmed
TrimQuotient(d) == [q |-> BigTrim(d.q), r |-> d.r]

\* floor(a / b) and a mod b, for b # 0
BigDivMod(a, b) == TrimQuotient(BigDivModFrom(a, b, << >>))

RECURSIVE BitLength(_)
BitLength(x) == IF x = 0 THEN 0 ELSE 1 + BitLength(x \div 2)

\* the number of binary digits of a
BigBitLen(a) ==
    IF a = << >> THEN 0 ELSE LimbBits * (Len(a) - 1) + BitLength(a[Len(a)])

\* a * 2^k
BigShl(a, k) == BigShiftLimbs(BigMulSmall(a, 2 ^ (k % LimbBits)), k \div LimbBits)

\* floor(a / 2^s), for s < LimbBits
BigShrBits(a, s) ==
    BigTrim([i \in 1..Len(a) |->
                (a[i] \div 2 ^ s) + (Limb(a, i + 1) % 2 ^ s) * 2 ^ (LimbBits - s)])

\* floor(a / 2^k)
BigShr(a, k) ==
    IF k \div LimbBits >= Len(a) THEN << >>
    ELSE BigShrBits(SubSeq(a, k \div LimbBits + 1, Len(a)), k % LimbBits)

BigOdd(a) == a # << >> /\ a[1] % 2 = 1

\* the k lowest binary digits of a are all zero
LowBitsZero(a, k) ==
    /\ \A i \in 1..(k \div LimbBits) : Limb(a, i) = 0
    /\ Limb(a, k \div LimbBits + 1) % 2 ^ (k % LimbBits) = 0

\* q, or the even neighbour below it if q is odd and stands for a tie
TieToEven(q, tie) == IF tie /\ BigOdd(q) THEN BigSub(q, <<1>>) ELSE q

\* a / 2^k rounded to the nearest integer, a tie to the even one, from
\* half == a + 2^(k-1)
HalfToEven(half, k) == TieToEven(BigShr(half, k), LowBitsZero(half, k))

\* a / 2^k rounded to the nearest integer, a tie to the even one
BigRoundShr(a, k) ==
    IF k = 0 THEN a ELSE HalfToEven(BigAdd(a, BigShl(<<1>>, k - 1)), k)

(***************************************************************************)
(* IEEE-754 binary64 with round-to-nearest-even: a finite double is        *)
(* [sign, m, e], standing for sign * m * 2^e, with m of exactly            *)
(* DBL_MANT_DIG binary digits; zero is [1, << >>, 0] and a NaN has sign 0. *)
(* Exponent overflow and subnormal numbers are outside the values used.    *)
(***************************************************************************)
DBL_MANT_DIG == 53

DblZero == [sign |-> 1, m |-> << >>, e |-> 0]

DblNaN == [sign |-> 0, m |-> << >>, e |-> 0]

\* sign * q * 2^E for a rounded q, which has DBL_MANT_DIG digits or is
\* the power of two above them
DblCarry(sign, q, E) ==
    IF BigBitLen(q) > DBL_MANT_DIG
    THEN [sign |-> sign, m |-> BigShr(q, 1), e |-> E + 1]
    ELSE [sign |-> sign, m |-> q, e |-> E]

\* the double nearest to sign * M * 2^E, M having n > 0 binary digits
DblRoundBits(sign, M, E, n) ==
    IF n <= DBL_MANT_DIG
    THEN [sign |-> sign, m |-> BigShl(M, DBL_MANT_DIG - n),
          e |-> E - (DBL_MANT_DIG - n)]
    ELSE DblCarry(sign, BigRoundShr(M, n - DBL_MANT_DIG), E + n - DBL_MANT_DIG)

\* the double nearest to sign * M * 2^E
DblRound(sign, M, E) ==
    IF M = << >> THEN DblZero ELSE DblRoundBits(sign, M, E, BigBitLen(M))

DblNeg(x) == [x EXCEPT !.sign = IF x.m = << >> THEN x.sign ELSE -x.sign]

\* sx * A * 2^e0 + sy * B * 2^e0, rounded
DblAddAligned(sx, A, sy, B, e0) ==
    DblRound(IF sx = sy \/ BigCmp(A, B) >= 0 THEN sx ELSE sy,
             IF sx = sy THEN BigAdd(A, B)
             ELSE IF BigCmp(A, B) >= 0 THEN BigSub(A, B) ELSE BigSub(B, A),
             e0)

\* x + y for x and y other than zero, e0 being the lesser exponent
DblAddFrom(x, y, e0) ==
    DblAddAligned(x.sign, BigShl(x.m, x.e - e0), y.sign, BigShl(y.m, y.e - e0), e0)

\* x + y
DblAdd(x, y) ==
    IF x.m = << >> THEN y
    ELSE IF y.m = << >> THEN x
    ELSE DblAddFrom(x, y, IF x.e < y.e THEN x.e ELSE y.e)

\* x - y
DblSub(x, y) == DblAdd(x, DblNeg(y))

\* x * y
DblMul(x, y) ==
    IF x.m = << >> \/ y.m = << >> THEN DblZero
    ELSE DblRound(x.sign * y.sign, BigMul(x.m, y.m), x.e + y.e)

\* twice the quotient, plus one if a remainder was left
StickyQuotient(d) ==
    IF d.r = << >> THEN BigMulSmall(d.q, 2) ELSE BigAdd(BigMulSmall(d.q, 2), <<1>>)

\* x / y: the quotient of the mantissas to DBL_MANT_DIG + 3 digits at
\* least, with one more digit that tells whether a remainder was left
\* (no caller divides by zero; the infinities are not among the values)
DblDiv(x, y) ==
    IF y.m = << >> THEN DblNaN
    ELSE IF x.m = << >> THEN DblZero
    ELSE DblRound(x.sign * y.sign,
                  StickyQuotient(BigDivMod(BigShl(x.m, DBL_MANT_DIG + 3), y.m)),
                  x.e - y.e - (DBL_MANT_DIG + 3) - 1)

\* x < y
DblLess(x, y) == DblSub(x, y).sign = -1

\* the double of an integer, as static_cast<double> gives it
DblFromInt(n) == DblRound(IF n < 0 THEN -1 ELSE 1, BigFromNat(Abs(n)), 0)

\* the double nearest to n / d, as a decimal literal or cell is read
DblFromRatio(n, d) == DblDiv(DblFromInt(n), DblFromInt(d))

(***************************************************************************)
(* The arithmetic of the functions below, over either form of a double.    *)
(***************************************************************************)
IsExact(x) == "d" \in DOMAIN x

\* 0.0 in the form of the elements of data (exact for no element)
ZeroOf(data) == IF data # << >> /\ ~IsExact(data[1]) THEN DblZero ELSE Zero

\* static_cast<double>(data.size())
SizeOf(data) ==
    IF data # << >> /\ ~IsExact(data[1]) THEN DblFromInt(Len(data))
    ELSE Rat(Len(data), 1)

NumAdd(x, y) == IF IsExact(x) THEN RatAdd(x, y) ELSE DblAdd(x, y)
NumSub(x, y) == IF IsExact(x) THEN RatSub(x, y) ELSE DblSub(x, y)
NumMul(x, y) == IF IsExact(x) THEN RatMul(x, y) ELSE DblMul(x, y)
NumDiv(x, y) == IF IsExact(x) THEN RatDiv(x, y) ELSE DblDiv(x, y)
NumLess(x, y) == IF IsExact(x) THEN RatLess(x, y) ELSE DblLess(x, y)

(***************************************************************************)
(* computeMeanAndStdDev and normalizeColumn.                               *)
(***************************************************************************)
\* std::accumulate(data.begin(), data.end(), 0.0)
RECURSIVE Accumulate(_)
Accumulate(data) ==
    IF Len(data) = 1 THEN NumAdd(ZeroOf(data), data[1])
    ELSE NumAdd(Accumulate(SubSeq(data, 1, Len(data) - 1)), data[Len(data)])

\* std::inner_product(data.begin(), data.end(), data.begin(), 0.0)
RECURSIVE InnerProduct(_)
InnerProduct(data) ==
    IF Len(data) = 1 THEN NumAdd(ZeroOf(data), NumMul(data[1], data[1]))
    ELSE NumAdd(InnerProduct(SubSeq(data, 1, Len(data) - 1)),
                NumMul(data[Len(data)], data[Len(data)]))

\* the formula with Bessel's correction: the sum of squares over n - 1
computeMeanAndStdDevBessel(data) ==
    IF data = << >> THEN [mean |-> Zero, stddev2 |-> Zero]
    ELSE LET mean == NumDiv(Accumulate(data), SizeOf(data))
         IN  [mean |-> mean,
              stddev2 |-> NumSub(NumDiv(InnerProduct(data),
                                        SizeOf(IF Len(data) > 1 THEN Tail(data)
                                               ELSE data)),
                                 NumMul(mean, mean))]

\* computeMeanAndStdDev: [mean, stddev2], stddev2 being the number under
\* the square root: the returned standard deviation is sqrt(stddev2), which
\* is 0.0 exactly if stddev2 is, and a NaN if stddev2 is negative
computeMeanAndStdDev(data) ==
    IF data = << >> THEN [mean |-> Zero, stddev2 |-> Zero]
    ELSE LET size   == SizeOf(data)
             mean   == NumDiv(Accumulate(data), size)
             sq_sum == InnerProduct(data)
         IN  [mean |-> mean,
              stddev2 |-> NumSub(NumDiv(sq_sum, size), NumMul(mean, mean))]

\* *std::min_element
MinVal(column) ==
    CHOOSE v \in {column[k] : k \in 1..Len(column)} :
        \A k \in 1..Len(column) : ~NumLess(column[k], v)

\* *std::max_element
MaxVal(column) ==
    CHOOSE v \in {column[k] : k \in 1..Len(column)} :
        \A k \in 1..Len(column) : ~NumLess(v, column[k])

\* a rescaling that does not subtract the minimum
normalizeColumnUnshifted(column) ==
    IF column = << >> THEN column
    ELSE IF MaxVal(column) = MinVal(column)
    THEN [k \in 1..Len(column) |-> ZeroOf(column)]
    ELSE [k \in 1..Len(column) |->
             NumDiv(column[k], NumSub(MaxVal(column), MinVal(column)))]

\* a rescaling that divides by the maximum, not by the range
normalizeColumnByMax(column) ==
    IF column = << >> THEN column
    ELSE IF MaxVal(column) = MinVal(column)
    THEN [k \in 1..Len(column) |-> ZeroOf(column)]
    ELSE [k \in 1..Len(column) |->
             NumDiv(NumSub(column[k], MinVal(column)), MaxVal(column))]

\* normalizeColumn: the column after the call
normalizeColumn(column) ==
    IF column = << >> THEN column
    ELSE LET minVal == MinVal(column)
             maxVal == MaxVal(column)
         IN  IF maxVal = minVal THEN [k \in 1..Len(column) |-> ZeroOf(column)]
             ELSE [k \in 1..Len(column) |->
                      NumDiv(NumSub(column[k], minVal), NumSub(maxVal, minVal))]

(***************************************************************************)
(* The steps of main, as functions of the values they read.                *)
(***************************************************************************)
\* an element-wise join with ',' between the elements, as the writers do
RECURSIVE JoinComma(_)
JoinComma(texts) ==
    IF texts = << >> THEN << >>
    ELSE IF Len(texts) = 1 THEN texts[1]
    ELSE texts[1] \o <<",">> \o JoinComma(Tail(texts))

\* an exclusion test without the `!term.empty()` guard
ExcludedByAnyTerm(col_name, do_not_include_terms) ==
    \E k \in 1..Len(do_not_include_terms) :
        Find(col_name, do_not_include_terms[k]) # NPOS

\* the exclusion test of the filter loop: some non-empty term occurs in
\* col_name
Excluded(col_name, do_not_include_terms) ==
    \E k \in 1..Len(do_not_include_terms) :
        /\ do_not_include_terms[k] # << >>
        /\ Find(col_name, do_not_include_terms[k]) # NPOS

\* the filtered list column_names built from original_column_names
RECURSIVE FilterColumns(_, _)
FilterColumns(original_column_names, do_not_include_terms) ==
    IF original_column_names = << >> THEN << >>
    ELSE LET rest == FilterColumns(Tail(original_column_names), do_not_include_terms)
         IN  IF Excluded(Head(original_column_names), do_not_include_terms)
             THEN rest
             ELSE <<Head(original_column_names)>> \o rest

\* do_not_include_terms of an entry: empty unless other_parameters and
\* do_not_include are both present
DoNotIncludeTerms(val) ==
    IF val.other_parameters.present /\ val.other_parameters.do_not_include.present
    THEN val.other_parameters.do_not_include.v
    ELSE << >>

\* a normalize flag that defaults to true
NormalizeFlagDefaultTrue(val) ==
    IF val.other_parameters.present /\ val.other_parameters.normalize.present
    THEN val.other_parameters.normalize.v
    ELSE TRUE

\* the normalize flag of an entry: false unless other_parameters and
\* normalize are both present
NormalizeFlag(val) ==
    IF val.other_parameters.present /\ val.other_parameters.normalize.present
    THEN val.other_parameters.normalize.v
    ELSE FALSE

\* a header_index that keeps the first position of a repeated name
HeaderIndexFirst(csv_header) ==
    [name \in {csv_header[k] : k \in 1..Len(csv_header)} |->
        (CHOOSE k \in 1..Len(csv_header) :
            /\ csv_header[k] = name
            /\ \A j \in 1..Len(csv_header) : csv_header[j] = name => k <= j) - 1]

\* header_index after the loop `header_index[csv_header[i]] = i`: for each
\* name of the header the 0-based position the last assignment left
HeaderIndex(csv_header) ==
    [name \in {csv_header[k] : k \in 1..Len(csv_header)} |->
        (CHOOSE k \in 1..Len(csv_header) :
            /\ csv_header[k] = name
            /\ \A j \in 1..Len(csv_header) : csv_header[j] = name => j <= k) - 1]

\* lines_to_read enforced while the header row is still counted
EnforceLinesWithHeader(rows, lines) ==
    IF lines > 0 /\ Len(rows) + 1 > lines THEN SubSeq(rows, 1, lines - 1) ELSE rows

\* the data rows after the header is erased and lines_to_read is enforced
EnforceLines(rows, lines) ==
    IF lines > 0 /\ Len(rows) > lines THEN SubSeq(rows, 1, lines) ELSE rows

\* data_directory + "/" + name
FullPath(data_dir, name) == data_dir \o <<"/">> \o name

DotCsv == <<".", "c", "s", "v">>

\* csv_file_name.substr(0, csv_file_name.find(".csv")) + suffix
OutputName(name, suffix) == Substr(name, 0, Find(name, DotCsv)) \o suffix

SummarySuffix == <<"_", "s", "u", "m", "m", "a", "r", "y">> \o DotCsv

TransformedSuffix ==
    <<"_", "t", "r", "a", "n", "s", "f", "o", "r", "m", "e", "d">> \o DotCsv

SummaryHeader ==
    <<"c", "o", "l", "u", "m", "n", "_", "n", "a", "m", "e", ",",
      "m", "e", "a", "n", ",", "s", "t", "d", "d", "e", "v", ",",
      "p", "a", "r", "a", "m", "_", "c", "o", "u", "n", "t">>

\* one row of the summary file for a non-empty series
SummaryRow(name, data, lines) ==
    LET st == computeMeanAndStdDev(data)
    IN  JoinComma(<<name, Fixed2(st.mean), Fixed2Sqrt(st.stddev2),
                    SizeTText(ToSizeT(lines))>>)

\* summary rows without the `!numerical_data[i].empty()` guard
RECURSIVE SummaryRowsOfAll(_, _, _)
SummaryRowsOfAll(names, data, lines) ==
    IF data = << >> THEN << >>
    ELSE <<SummaryRow(Head(names), Head(data), lines)>>
         \o SummaryRowsOfAll(Tail(names), Tail(data), lines)

\* the rows of the summary file: one per non-empty series, in index order
RECURSIVE SummaryRows(_, _, _)
SummaryRows(names, data, lines) ==
    IF data = << >> THEN << >>
    ELSE (IF Head(data) # << >>
          THEN <<SummaryRow(Head(names), Head(data), lines)>>
          ELSE << >>)
         \o SummaryRows(Tail(names), Tail(data), lines)

\* the lines of the summary file
SummaryLines(names, data, lines) ==
    <<SummaryHeader>> \o SummaryRows(names, data, lines)

\* the value a read outside a vector's elements yields, if the program
\* survives it: unspecified
Garbage == <<"?">>

\* writeCSV's accesses are all within bounds
WriteInBounds(data) ==
    /\ Len(data) >= 1
    /\ \A c \in 1..Len(data) : Len(data[c]) >= Len(data[1])

\* the text of writeCSV's row r (1-based), a read past a column's end
\* yielding Garbage
DataLine(data, r) ==
    JoinComma([c \in 1..Len(data) |->
        IF r <= Len(data[c]) THEN DefaultFormat(data[c][r]) ELSE Garbage])

\* what writeCSV can do once the file is open: [crash, lines].  Within
\* bounds, the header and one line per element of data[0].  data[0] of an
\* empty data, or data[c][r] past the end of column c, is undefined
\* behaviour: the program is killed at the access (the file holding the
\* lines completed before it, or nothing if they were still buffered), or
\* it reads an unspecified value and goes on.
WriteCSVOutcomes(header, data) ==
    LET head == <<JoinComma(header)>>
        rows == IF Len(data) >= 1 THEN Len(data[1]) ELSE 0
        all  == head \o [r \in 1..rows |-> DataLine(data, r)]
        bad  == {r \in 1..rows : \E c \in 1..Len(data) : r > Len(data[c])}
        stop == IF bad = {} THEN 0 ELSE CHOOSE r \in bad : \A q \in bad : r <= q
    IN  IF WriteInBounds(data) THEN {[crash |-> FALSE, lines |-> all]}
        ELSE IF Len(data) = 0
        THEN {[crash |-> TRUE, lines |-> << >>], [crash |-> TRUE, lines |-> head]}
             \cup {[crash |-> FALSE, lines |-> head \o [r \in 1..n |-> << >>]] :
                      n \in 0..MaxRows}
        ELSE {[crash |-> TRUE, lines |-> << >>],
              [crash |-> TRUE, lines |-> SubSeq(all, 1, stop)],
              [crash |-> FALSE, lines |-> all]}

(***************************************************************************)
(* The state of a run of main.                                             *)
(***************************************************************************)
VARIABLES
    argc,             \* the argument count
    data_directory,   \* argv[1]
    config,           \* the file at argv[2]: [open, wellformed, doc], doc the
                      \* entries <<key, val>> in the order of the document
    disk,             \* the table files: full path -> the lines of the file
    unwritable,       \* the paths no std::ofstream can open
    pc,               \* the position of main
    json_data,        \* the parsed document, in the order items() visits it
    it,               \* the position of the range-for in json_data, 1-based
    csv_file_name,    \* the locals of the loop body
    lines_to_read,
    column_names,
    csv_data,
    header_index,
    row,              \* the position of the coercion loop in csv_data
    numerical_data,
    normalize,
    files,            \* the files written: full path -> the lines
    console,          \* what was written to std::cout and std::cerr, in order
    exit_status,      \* "running", "0", "1", "terminate" (an exception left
                      \* main) or "killed" (undefined behaviour ended the run)
    visited,          \* the keys whose loop body was entered, in order
    column,           \* a caller of the two functions alone: the vector it holds,
    argument,         \* the vector as it was when the last call was entered,
    returned,         \* what computeMeanAndStdDev returned last,
    calls             \* and the functions called so far, in order

vars ==
    <<argc, data_directory, config, disk, unwritable, pc, json_data, it,
      csv_file_name, lines_to_read, column_names, csv_data, header_index, row,
      numerical_data, normalize, files, console, exit_status, visited,
      column, argument, returned, calls>>

\* the state of a caller of computeMeanAndStdDev and normalizeColumn alone
unit == <<column, argument, returned, calls>>

inputs == <<argc, data_directory, config, disk, unwritable>>

locals ==
    <<csv_file_name, lines_to_read, column_names, csv_data, header_index, row,
      numerical_data, normalize>>

\* the empty map
NoFiles == [p \in {} |-> << >>]

\* the locals of the loop body before an iteration sets them
FreshLocals ==
    /\ csv_file_name' = << >>
    /\ lines_to_read' = 0
    /\ column_names' = << >>
    /\ csv_data' = << >>
    /\ header_index' = NoFiles
    /\ row' = 0
    /\ numerical_data' = << >>
    /\ normalize' = FALSE

\* std::ifstream on a table path: [open, lines]
OpenTable(path) ==
    IF path \in DOMAIN disk THEN [open |-> TRUE, lines |-> disk[path]]
    ELSE [open |-> FALSE, lines |-> << >>]

\* the map m with path bound to lines (std::ofstream truncates on open)
WriteFile(m, path, lines) ==
    [p \in DOMAIN m \cup {path} |-> IF p = path THEN lines ELSE m[p]]

\* the entries in the order of the document, as an insertion-ordered
\* object type would visit them
ItemsDocumentOrder(doc) == doc

\* the entries in the order nlohmann::json's items() visits them: the
\* default object type is a std::map, ordered by key
RECURSIVE ItemsOrder(_)
ItemsOrder(doc) ==
    IF doc = << >> THEN << >>
    ELSE LET k == CHOOSE k \in 1..Len(doc) :
                      \A j \in 1..Len(doc) : j = k \/ StrLess(doc[k][1], doc[j][1])
             rest == [j \in 1..(Len(doc) - 1) |-> IF j < k THEN doc[j] ELSE doc[j + 1]]
         IN  <<doc[k]>> \o ItemsOrder(rest)

\* the entry of the current iteration
Key == json_data[it][1]
Val == json_data[it][2]

\* a line on std::cout or std::cerr: which message, and the texts put in it
Cout(what, args) == [stream |-> "cout", what |-> what, args |-> args]
Cerr(what, args) == [stream |-> "cerr", what |-> what, args |-> args]

(***************************************************************************)
(* The steps of main.                                                      *)
(***************************************************************************)
\* lines 156-165: the usage check
CheckArgs ==
    /\ pc = "start"
    /\ IF argc < 3
       THEN /\ console' = Append(console, Cerr("Usage", << >>))
            /\ exit_status' = "1"
            /\ pc' = "done"
       ELSE /\ console' = console \o <<Cout("Data Directory Specified", <<data_directory>>),
                                       Cout("Location of JSON File Specified", << >>)>>
            /\ exit_status' = exit_status
            /\ pc' = "open"
    /\ UNCHANGED <<inputs, unit, locals, json_data, it, files, visited>>

\* lines 170-176: the configuration is opened and parsed; a parse error
\* is an exception nothing catches
ParseConfig ==
    /\ pc = "open"
    /\ IF ~config.open
       THEN /\ console' = Append(console, Cerr("Error: Unable to open JSON file", << >>))
            /\ exit_status' = "1"
            /\ pc' = "done"
            /\ UNCHANGED json_data
       ELSE IF ~config.wellformed
       THEN /\ exit_status' = "terminate"
            /\ pc' = "done"
            /\ UNCHANGED <<console, json_data>>
       ELSE /\ json_data' = ItemsOrder(config.doc)
            /\ pc' = "loop"
            /\ UNCHANGED <<console, exit_status>>
    /\ UNCHANGED <<inputs, unit, locals, it, files, visited>>

\* lines 179 and 302: the range-for is exhausted
Return0 ==
    /\ pc = "loop"
    /\ it > Len(json_data)
    /\ exit_status' = "0"
    /\ pc' = "done"
    /\ UNCHANGED <<inputs, unit, locals, json_data, it, files, console, visited>>

\* a loop body that does not test for the columns key
LoadSpecUnchecked ==
    /\ pc = "loop"
    /\ it <= Len(json_data)
    /\ visited' = Append(visited, Key)
    /\ csv_file_name' = Val.file_name
    /\ lines_to_read' = Val.lines_to_read
    /\ column_names' = FilterColumns(Val.columns.v, DoNotIncludeTerms(Val))
    /\ console' = Append(console,
           Cout("Processing file", <<FullPath(data_directory, Val.file_name),
                                      IntText(Val.lines_to_read)>>))
    /\ pc' = "read"
    /\ UNCHANGED <<it, csv_data, header_index, row, numerical_data, normalize>>
    /\ UNCHANGED <<inputs, unit, json_data, files, exit_status>>

\* lines 180-209: the entry is loaded; without columns it is skipped
LoadSpec ==
    /\ pc = "loop"
    /\ it <= Len(json_data)
    /\ visited' = Append(visited, Key)
    /\ IF ~Val.columns.present
       THEN /\ console' = Append(console, Cout("Skipping", <<Val.file_name>>))
            /\ it' = it + 1
            /\ pc' = "loop"
            /\ FreshLocals
       ELSE /\ csv_file_name' = Val.file_name
            /\ lines_to_read' = Val.lines_to_read
            /\ column_names' = FilterColumns(Val.columns.v, DoNotIncludeTerms(Val))
            /\ console' = Append(console,
                   Cout("Processing file", <<FullPath(data_directory, Val.file_name),
                                              IntText(Val.lines_to_read)>>))
            /\ pc' = "read"
            /\ UNCHANGED <<it, csv_data, header_index, row, numerical_data, normalize>>
    /\ UNCHANGED <<inputs, unit, json_data, files, exit_status>>

\* a step that opens the summary file before it looks at the table
ReadTableSummaryOpened ==
    /\ pc = "read"
    /\ LET full_csv_path == FullPath(data_directory, csv_file_name)
           file == OpenTable(full_csv_path)
           read == readCSV(file)
           err  == IF file.open THEN << >>
                   ELSE <<Cerr("Error: Unable to open", <<full_csv_path>>)>>
       IN  IF read = << >>
           THEN /\ console' = console \o err
                       \o <<Cerr("Error: No data read from", <<full_csv_path>>)>>
                /\ it' = it + 1
                /\ pc' = "loop"
                /\ FreshLocals
                /\ files' = WriteFile(files,
                       FullPath(data_directory,
                                OutputName(csv_file_name, SummarySuffix)),
                       << >>)
           ELSE /\ csv_data' = read
                /\ console' = console \o err
                /\ pc' = "resolve"
                /\ UNCHANGED <<it, csv_file_name, lines_to_read, column_names,
                               header_index, row, numerical_data, normalize,
                               files>>
    /\ UNCHANGED <<inputs, unit, json_data, exit_status, visited>>

\* lines 211-216: the table is read; an empty result skips the dataset
ReadTable ==
    /\ pc = "read"
    /\ LET full_csv_path == FullPath(data_directory, csv_file_name)
           file == OpenTable(full_csv_path)
           read == readCSV(file)
           err  == IF file.open THEN << >>
                   ELSE <<Cerr("Error: Unable to open", <<full_csv_path>>)>>
       IN  IF read = << >>
           THEN /\ console' = console \o err
                       \o <<Cerr("Error: No data read from", <<full_csv_path>>)>>
                /\ it' = it + 1
                /\ pc' = "loop"
                /\ FreshLocals
           ELSE /\ csv_data' = read
                /\ console' = console \o err
                /\ pc' = "resolve"
                /\ UNCHANGED <<it, csv_file_name, lines_to_read, column_names,
                               header_index, row, numerical_data, normalize>>
    /\ UNCHANGED <<inputs, unit, json_data, files, exit_status, visited>>

\* lines 219-232: the header is mapped and erased, lines_to_read enforced,
\* one empty series made per filtered column
ResolveHeader ==
    /\ pc = "resolve"
    /\ header_index' = HeaderIndex(csv_data[1])
    /\ csv_data' = EnforceLines(Tail(csv_data), lines_to_read)
    /\ numerical_data' = [i \in 1..Len(column_names) |-> << >>]
    /\ row' = 1
    /\ pc' = IF csv_data' = << >> THEN "summary" ELSE "coerce"
    /\ UNCHANGED <<inputs, unit, json_data, it, csv_file_name, lines_to_read,
                   column_names, normalize, files, console, exit_status, visited>>

\* a coercion that reads the last cell of a row too short for the index
CellOutcomeLastCell(cells, col_name, index) ==
    IF col_name \in DOMAIN index /\ cells # << >>
    THEN Stod(cells[IF index[col_name] < Len(cells) THEN index[col_name] + 1
                    ELSE Len(cells)])
    ELSE [kind |-> "not_found", v |-> Zero]

\* the outcome of one cell of the coercion loop: std::stod's outcome, or
\* "not_found" when the name is not in header_index or the row is too short
CellOutcome(cells, col_name, index) ==
    IF col_name \in DOMAIN index /\ index[col_name] < Len(cells)
    THEN Stod(cells[index[col_name] + 1])
    ELSE [kind |-> "not_found", v |-> Zero]

\* an inner loop that puts 0.0 in the place of a cell std::stod rejects
CoerceCellsZeroFilled(cells, names, index, data) ==
    [i \in 1..Len(names) |->
        LET o == CellOutcome(cells, names[i], index)
        IN  IF o.kind = "not_found" THEN data[i] ELSE Append(data[i], o.v)]

\* numerical_data after the inner loop ran over one row
CoerceCells(cells, names, index, data) ==
    [i \in 1..Len(names) |->
        LET o == CellOutcome(cells, names[i], index)
        IN  IF o.kind = "value" THEN Append(data[i], o.v) ELSE data[i]]

\* the warnings of the inner loop over one row, from column i on
RECURSIVE RowWarnings(_, _, _, _, _)
RowWarnings(cells, names, index, file_name, i) ==
    IF i > Len(names) THEN << >>
    ELSE LET o == CellOutcome(cells, names[i], index)
             w == CASE o.kind = "value" -> << >>
                    [] o.kind = "invalid_argument" ->
                         <<Cerr("Warning: Could not convert",
                                <<cells[index[names[i]] + 1], file_name>>)>>
                    [] o.kind = "out_of_range" ->
                         <<Cerr("Warning: Value out of range",
                                <<cells[index[names[i]] + 1], file_name>>)>>
                    [] OTHER ->
                         <<Cerr("Warning: Column not found", <<names[i], file_name>>)>>
         IN  w \o RowWarnings(cells, names, index, file_name, i + 1)

\* a loop that reports a column it does not find for the first row only
CoerceRowWarnOnce ==
    /\ pc = "coerce"
    /\ numerical_data' =
           CoerceCells(csv_data[row], column_names, header_index, numerical_data)
    /\ console' = console
           \o SelectSeq(RowWarnings(csv_data[row], column_names, header_index,
                                    csv_file_name, 1),
                        LAMBDA m : row = 1 \/ m.what # "Warning: Column not found")
    /\ row' = row + 1
    /\ pc' = IF row = Len(csv_data) THEN "summary" ELSE "coerce"
    /\ UNCHANGED <<inputs, unit, json_data, it, csv_file_name, lines_to_read,
                   column_names, csv_data, header_index, normalize, files,
                   exit_status, visited>>

\* lines 235-252: one iteration of the loop over the rows
CoerceRow ==
    /\ pc = "coerce"
    /\ numerical_data' =
           CoerceCells(csv_data[row], column_names, header_index, numerical_data)
    /\ console' = console
           \o RowWarnings(csv_data[row], column_names, header_index, csv_file_name, 1)
    /\ row' = row + 1
    /\ pc' = IF row = Len(csv_data) THEN "summary" ELSE "coerce"
    /\ UNCHANGED <<inputs, unit, json_data, it, csv_file_name, lines_to_read,
                   column_names, csv_data, header_index, normalize, files,
                   exit_status, visited>>

SummaryPath == FullPath(data_directory, OutputName(csv_file_name, SummarySuffix))

TransformedPath ==
    FullPath(data_directory, OutputName(csv_file_name, TransformedSuffix))

\* a summary step that normalizes first when the flag is set
WriteSummaryNormalized ==
    /\ pc = "summary"
    /\ IF SummaryPath \in unwritable
       THEN /\ console' = Append(console,
                   Cerr("Error: Unable to open summary file", <<SummaryPath>>))
            /\ UNCHANGED files
       ELSE /\ files' = WriteFile(files, SummaryPath,
                   SummaryLines(column_names,
                       [i \in 1..Len(numerical_data) |->
                           IF NormalizeFlag(Val) THEN normalizeColumn(numerical_data[i])
                           ELSE numerical_data[i]],
                       lines_to_read))
            /\ console' = Append(console,
                   Cout("Summary statistics written to", <<SummaryPath>>))
    /\ normalize' = NormalizeFlag(Val)
    /\ pc' = "normalize"
    /\ UNCHANGED <<inputs, unit, json_data, it, csv_file_name, lines_to_read,
                   column_names, csv_data, header_index, row, numerical_data,
                   exit_status, visited>>

\* lines 254-279: the summary file is written from numerical_data as it
\* stands, and the normalize flag is read
WriteSummary ==
    /\ pc = "summary"
    /\ IF SummaryPath \in unwritable
       THEN /\ console' = Append(console,
                   Cerr("Error: Unable to open summary file", <<SummaryPath>>))
            /\ UNCHANGED files
       ELSE /\ files' = WriteFile(files, SummaryPath,
                   SummaryLines(column_names, numerical_data, lines_to_read))
            /\ console' = Append(console,
                   Cout("Summary statistics written to", <<SummaryPath>>))
    /\ normalize' = NormalizeFlag(Val)
    /\ pc' = "normalize"
    /\ UNCHANGED <<inputs, unit, json_data, it, csv_file_name, lines_to_read,
                   column_names, csv_data, header_index, row, numerical_data,
                   exit_status, visited>>

\* the console lines of the loop of lines 282-291, from column i on
RECURSIVE ColumnReports(_, _, _)
ColumnReports(names, data, i) ==
    IF i > Len(names) THEN << >>
    ELSE (IF data[i] # << >>
          THEN LET st == computeMeanAndStdDev(data[i])
               IN  <<Cout("Column: Mean, StdDev",
                          <<names[i], Fixed2(st.mean), Fixed2Sqrt(st.stddev2)>>)>>
          ELSE << >>)
         \o ColumnReports(names, data, i + 1)

\* lines 282-291: every non-empty series is reported, and normalized if
\* the flag is set
NormalizeColumns ==
    /\ pc = "normalize"
    /\ console' = console \o ColumnReports(column_names, numerical_data, 1)
    /\ numerical_data' =
           [i \in 1..Len(numerical_data) |->
               IF numerical_data[i] # << >> /\ normalize
               THEN normalizeColumn(numerical_data[i])
               ELSE numerical_data[i]]
    /\ pc' = "transform"
    /\ UNCHANGED <<inputs, unit, json_data, it, csv_file_name, lines_to_read,
                   column_names, csv_data, header_index, row, normalize, files,
                   exit_status, visited>>

\* lines 294-300: writeCSV if the flag is set, and the iteration ends
WriteTransformed ==
    /\ pc = "transform"
    /\ IF ~normalize
       THEN /\ it' = it + 1
            /\ pc' = "loop"
            /\ FreshLocals
            /\ UNCHANGED <<files, console, exit_status>>
       ELSE IF TransformedPath \in unwritable
       THEN /\ console' = console
                   \o <<Cerr("Error: Unable to open for writing", <<TransformedPath>>),
                        Cout("Transformed data written to", <<TransformedPath>>)>>
            /\ it' = it + 1
            /\ pc' = "loop"
            /\ FreshLocals
            /\ UNCHANGED <<files, exit_status>>
       ELSE \E o \in WriteCSVOutcomes(column_names, numerical_data) :
            /\ files' = WriteFile(files, TransformedPath, o.lines)
            /\ IF o.crash
               THEN /\ exit_status' = "killed"
                    /\ pc' = "done"
                    /\ UNCHANGED <<it, locals, console>>
               ELSE /\ console' = Append(console,
                           Cout("Transformed data written to", <<TransformedPath>>))
                    /\ it' = it + 1
                    /\ pc' = "loop"
                    /\ FreshLocals
                    /\ UNCHANGED exit_status
    /\ UNCHANGED <<inputs, unit, json_data, visited>>

Next ==
    \/ CheckArgs
    \/ ParseConfig
    \/ Return0
    \/ LoadSpec
    \/ ReadTable
    \/ ResolveHeader
    \/ CoerceRow
    \/ WriteSummary
    \/ NormalizeColumns
    \/ WriteTransformed

(***************************************************************************)
(* The inputs of a run.                                                    *)
(***************************************************************************)
\* the sequences over S of length at most n
SeqsUpTo(S, n) == UNION {[1..k -> S] : k \in 0..n}

DataDir == <<"d">>
TableName == <<"t">> \o DotCsv
OtherName == <<"u">> \o DotCsv

\* a key of a JSON object that is present, and one that is absent
Present(v) == [present |-> TRUE, v |-> v]
AbsentSeq == [present |-> FALSE, v |-> << >>]
AbsentBool == [present |-> FALSE, v |-> FALSE]
NoOtherParameters ==
    [present |-> FALSE, do_not_include |-> AbsentSeq, normalize |-> AbsentBool]
OtherParameters(dni, norm) ==
    [present |-> TRUE, do_not_include |-> dni, normalize |-> norm]

Entry(name, lines, columns, other) ==
    [file_name |-> name, lines_to_read |-> lines, columns |-> columns,
     other_parameters |-> other]

\* a configuration that cannot be opened, one that does not parse, one
\* that holds doc
NoConfig == [open |-> FALSE, wellformed |-> FALSE, doc |-> << >>]
BadConfig == [open |-> TRUE, wellformed |-> FALSE, doc |-> << >>]
Config(doc) == [open |-> TRUE, wellformed |-> TRUE, doc |-> doc]

\* the table of the batch and filter specifications: a,b / 1,2 / 3,4
GoodLines == <<<<"a", ",", "b">>, <<"1", ",", "2">>, <<"3", ",", "4">>>>

\* every output path of the files a run can name
OutPaths(names) ==
    {FullPath(DataDir, OutputName(f, x)) :
        f \in names, x \in {SummarySuffix, TransformedSuffix}}

\* computeMeanAndStdDev was not called
NothingReturned == [mean |-> Zero, stddev2 |-> Zero]

\* the state main starts in, the inputs being drawn from the given sets;
\* a run that never reads the configuration or the tables gets one of each
InitFrom(docs, disks, unwritables) ==
    /\ data_directory = DataDir
    /\ \/ /\ argc \in {1, 2, 3}
          /\ config \in {NoConfig, BadConfig}
          /\ disk \in {CHOOSE d \in disks : TRUE}
          /\ unwritable = {}
       \/ /\ argc = 3
          /\ config \in {Config(d) : d \in docs}
          /\ disk \in disks
          /\ unwritable \in unwritables
    /\ pc = "start"
    /\ json_data = << >>
    /\ it = 1
    /\ csv_file_name = << >>
    /\ lines_to_read = 0
    /\ column_names = << >>
    /\ csv_data = << >>
    /\ header_index = NoFiles
    /\ row = 0
    /\ numerical_data = << >>
    /\ normalize = FALSE
    /\ files = NoFiles
    /\ console = << >>
    /\ exit_status = "running"
    /\ visited = << >>
    /\ column = << >>
    /\ argument = << >>
    /\ returned = NothingReturned
    /\ calls = << >>

(***************************************************************************)
(* The batch specification: documents of up to MaxEntries entries over a   *)
(* table that exists and one that does not, or exists and has no lines.    *)
(***************************************************************************)
BatchKeys == {<<"a">>, <<"b">>, <<"B">>}

BatchEntries ==
    {Entry(f, 0, c, o) :
        f \in {TableName, OtherName},
        c \in {AbsentSeq, Present(<<<<"a">>>>), Present(<< >>)},
        o \in {NoOtherParameters, OtherParameters(AbsentSeq, Present(TRUE))}}

BatchDocs ==
    {d \in SeqsUpTo(BatchKeys \X BatchEntries, MaxEntries) :
        \A i, j \in 1..Len(d) : i # j => d[i][1] # d[j][1]}

\* the first table alone, or with a second table that has no lines
BatchDisks ==
    {[p \in {FullPath(DataDir, TableName)} |-> GoodLines],
     [p \in {FullPath(DataDir, TableName), FullPath(DataDir, OtherName)} |->
         IF p = FullPath(DataDir, TableName) THEN GoodLines ELSE << >>]}

Init ==
    InitFrom(BatchDocs, BatchDisks, {{}, OutPaths({TableName, OtherName})})

Spec == Init /\ [][Next]_vars

(***************************************************************************)
(* The table specification: one entry; the table, lines_to_read, the       *)
(* configured columns, the normalize flag and the writable paths vary.     *)
(***************************************************************************)
\* the data lines a table is made of: 1,2  3,1  q,5  a short row, an
\* empty line
TableLineSet ==
    {<<"1", ",", "2">>, <<"3", ",", "1">>, <<"q", ",", "5">>, <<"4">>, << >>}

TableHeader == <<"a", ",", "b">>

\* the table files: none, an empty one, a header and up to MaxRows lines
TableDisks ==
    {NoFiles, [p \in {FullPath(DataDir, TableName)} |-> << >>]}
    \cup {[p \in {FullPath(DataDir, TableName)} |-> <<TableHeader>> \o rows] :
             rows \in SeqsUpTo(TableLineSet, MaxRows)}

TableColumns ==
    {<<<<"a">>, <<"b">>>>, <<<<"b">>, <<"a">>>>, <<<<"b">>>>, <<<<"c">>, <<"a">>>>,
     <<<<"a">>, <<"c">>>>}

TableEntries ==
    {Entry(TableName, n, c, o) :
        n \in -1..MaxLines,
        c \in {AbsentSeq} \cup {Present(x) : x \in TableColumns},
        o \in {NoOtherParameters} \cup
              {OtherParameters(AbsentSeq, f) :
                  f \in {AbsentBool, Present(FALSE), Present(TRUE)}}}

TableDocs == {<<<<<<"a">>, e>>>> : e \in TableEntries}

InitTable == InitFrom(TableDocs, TableDisks, SUBSET OutPaths({TableName}))

SpecTable == InitTable /\ [][Next]_vars

(***************************************************************************)
(* The filter specification: one entry over the table a,b / 1,2 / 3,4;     *)
(* the configured columns and do_not_include vary.                         *)
(***************************************************************************)
FilterNames == {<<"a">>, <<"b">>, <<"a", "b">>, <<"A">>, <<"b", "a">>}

FilterTerms == {<< >>, <<"a">>, <<"b">>, <<"a", "b">>}

FilterEntries ==
    {Entry(TableName, 0, c, o) :
        c \in {AbsentSeq} \cup {Present(x) : x \in SeqsUpTo(FilterNames, MaxCols)},
        o \in {NoOtherParameters} \cup
              {OtherParameters(d, Present(TRUE)) :
                  d \in {AbsentSeq} \cup
                        {Present(x) : x \in SeqsUpTo(FilterTerms, MaxTerms)}}}

FilterDocs == {<<<<<<"a">>, e>>>> : e \in FilterEntries}

InitFilter == InitFrom(FilterDocs, BatchDisks, {{}})

SpecFilter == InitFilter /\ [][Next]_vars

(***************************************************************************)
(* The cell specification: one entry over a table of up to MaxSeries data  *)
(* lines; the header (with a repeated name), the cells (numbers, a text    *)
(* that is no number, a number out of the range of a double), the          *)
(* configured columns and the normalize flag vary.                         *)
(***************************************************************************)
CellHeaders == {<<"a", ",", "b">>, <<"a", ",", "a">>, <<"b", ",", "a">>}

\* the data lines: 1,2  3,1  2,4  q,6  1e999,5
CellLineSet ==
    {<<"1", ",", "2">>, <<"3", ",", "1">>, <<"2", ",", "4">>, <<"q", ",", "6">>,
     <<"1", "e", "9", "9", "9", ",", "5">>}

CellDisks ==
    {[p \in {FullPath(DataDir, TableName)} |-> <<h>> \o rows] :
        h \in CellHeaders, rows \in SeqsUpTo(CellLineSet, MaxSeries)}

CellEntries ==
    {Entry(TableName, 0, Present(c), OtherParameters(AbsentSeq, Present(f))) :
        c \in {<<<<"a">>>>, <<<<"a">>, <<"b">>>>}, f \in BOOLEAN}

CellDocs == {<<<<<<"a">>, e>>>> : e \in CellEntries}

InitCells == InitFrom(CellDocs, CellDisks, {{}})

SpecCells == InitCells /\ [][Next]_vars

(***************************************************************************)
(* The column specification: computeMeanAndStdDev and normalizeColumn      *)
(* called, in any order, on a vector of up to MaxSeries binary64 values.   *)
(***************************************************************************)
\* 0.1, 0.3, 1.0, 2.5 and -2.0
ColumnValues ==
    {DblFromRatio(1, 10), DblFromRatio(3, 10), DblFromInt(1), DblFromRatio(5, 2),
     DblFromInt(-2)}

\* normalizeColumn(column)
CallNormalizeColumn ==
    /\ Len(calls) < MaxCalls
    /\ argument' = column
    /\ column' = normalizeColumn(column)
    /\ calls' = Append(calls, "normalizeColumn")
    /\ UNCHANGED <<inputs, locals, pc, json_data, it, files, console, exit_status,
                   visited, returned>>

\* computeMeanAndStdDev(column)
CallComputeMeanAndStdDev ==
    /\ Len(calls) < MaxCalls
    /\ argument' = column
    /\ returned' = computeMeanAndStdDev(column)
    /\ calls' = Append(calls, "computeMeanAndStdDev")
    /\ UNCHANGED <<inputs, locals, pc, json_data, it, files, console, exit_status,
                   visited, column>>

NextColumn == CallNormalizeColumn \/ CallComputeMeanAndStdDev

InitColumn ==
    /\ column \in SeqsUpTo(ColumnValues, MaxSeries)
    /\ argument = column
    /\ returned = NothingReturned
    /\ calls = << >>
    /\ argc = 1
    /\ data_directory = DataDir
    /\ config = NoConfig
    /\ disk = NoFiles
    /\ unwritable = {}
    /\ pc = "start"
    /\ json_data = << >>
    /\ it = 1
    /\ csv_file_name = << >>
    /\ lines_to_read = 0
    /\ column_names = << >>
    /\ csv_data = << >>
    /\ header_index = NoFiles
    /\ row = 0
    /\ numerical_data = << >>
    /\ normalize = FALSE
    /\ files = NoFiles
    /\ console = << >>
    /\ exit_status = "running"
    /\ visited = << >>

SpecColumn == InitColumn /\ [][NextColumn]_vars

(***************************************************************************)
(* What the claims speak of.                                               *)
(***************************************************************************)
\* the series the coercion loop builds from all the rows
RECURSIVE CoerceAll(_, _, _)
CoerceAll(rows, names, index) ==
    IF rows = << >> THEN [i \in 1..Len(names) |-> << >>]
    ELSE CoerceCells(rows[Len(rows)], names, index,
                     CoerceAll(SubSeq(rows, 1, Len(rows) - 1), names, index))

\* the raw (coerced, not normalized) series of the dataset in progress
Raw == CoerceAll(csv_data, column_names, header_index)

\* the rows readCSV gives for an entry's table
EntryTable(val) == readCSV(OpenTable(FullPath(data_directory, val.file_name)))

\* an entry's table is read, and is not empty
ReadOK(val) == val.columns.present /\ EntryTable(val) # << >>

EntryColumns(val) == FilterColumns(val.columns.v, DoNotIncludeTerms(val))

\* the raw series of an entry whose table is read
EntryRaw(val) ==
    CoerceAll(EnforceLines(Tail(EntryTable(val)), val.lines_to_read),
              EntryColumns(val), HeaderIndex(EntryTable(val)[1]))

EntrySummaryPath(val) ==
    FullPath(data_directory, OutputName(val.file_name, SummarySuffix))

EntryTransformedPath(val) ==
    FullPath(data_directory, OutputName(val.file_name, TransformedSuffix))

\* the run was given a configuration that parses
Configured == argc >= 3 /\ config.open /\ config.wellformed

\* the one entry of a single-entry document
TheEntry == config.doc[1][2]

\* the position of main lies in the body of the loop, after the summary step
AfterSummary == pc \in {"normalize", "transform"}

\* the fields of a written line
Fields(line) == SplitCells(line, << >>, << >>)

\* the indices of the non-empty series, ascending
NonEmptyIndices(data) ==
    LET idx == {i \in 1..Len(data) : data[i] # << >>}
    IN  [k \in 1..Cardinality(idx) |->
            CHOOSE i \in idx : Cardinality({j \in idx : j <= i}) = k]

(***************************************************************************)
(* C1.                                                                     *)
(***************************************************************************)
\* C1: the summary is computed from the raw coerced series and written
\* before any series is normalized: the series are still raw when the
\* summary step runs and when it is over, and the summary file of the dataset holds, then and ever after,
\* the statistics of the raw series, whatever the normalize flag.
C1_SummaryFromRaw ==
    /\ pc \in {"summary", "normalize"} => numerical_data = Raw
    /\ (Configured /\ Len(config.doc) = 1 /\ EntrySummaryPath(TheEntry) \in DOMAIN files)
           => files[EntrySummaryPath(TheEntry)] =
                  SummaryLines(EntryColumns(TheEntry), EntryRaw(TheEntry),
                               TheEntry.lines_to_read)

\* C1 witness: the series have been normalized and differ from the raw
\* ones, and the summary file is on disk
C1_Witness ==
    /\ pc = "transform"
    /\ normalize
    /\ numerical_data # Raw
    /\ SummaryPath \in DOMAIN files
    /\ Len(files[SummaryPath]) > 1

\* the entry asks for normalization: other_parameters and normalize are
\* both present and normalize is true
NormalizeRequested(val) ==
    /\ val.other_parameters.present
    /\ val.other_parameters.normalize.present
    /\ val.other_parameters.normalize.v

(***************************************************************************)
(* C2.                                                                     *)
(***************************************************************************)
\* C2: batch fault isolation: a run given a configuration that parses
\* attempts every entry, whatever happened to the entries before it, and
\* every entry whose table is read gets its summary file and, with the
\* normalize flag set, its transformed file (where the path is writable).
C2_FaultIsolation ==
    (pc = "done" /\ Configured) =>
        /\ Len(visited) = Len(json_data)
        /\ \A k \in 1..Len(json_data) :
               LET val == json_data[k][2]
               IN  ReadOK(val) =>
                       /\ EntrySummaryPath(val) \in DOMAIN files \cup unwritable
                       /\ NormalizeRequested(val) =>
                              EntryTransformedPath(val) \in DOMAIN files \cup unwritable

(***************************************************************************)
(* C3.                                                                     *)
(***************************************************************************)
\* C3 as stated: at the end of the run the transformed file of the entry
\* exists exactly if its table was read and its normalize flag is true; it
\* never exists otherwise, and without the flag no series is normalized.
C3_TransformedIffNormalize ==
    (Configured /\ Len(config.doc) = 1) =>
        /\ EntryTransformedPath(TheEntry) \in DOMAIN files
               => ReadOK(TheEntry) /\ NormalizeRequested(TheEntry)
        /\ (pc = "done" /\ ReadOK(TheEntry) /\ NormalizeRequested(TheEntry))
               => EntryTransformedPath(TheEntry) \in DOMAIN files
        /\ (pc = "transform" /\ ~NormalizeRequested(TheEntry)) => numerical_data = Raw

\* C3 amended: the transformed file exists at the end exactly if the table
\* was read, the normalize flag is true (an absent other_parameters or
\* normalize key counting as false) and the path can be opened for writing;
\* without the flag no series is normalized.
C3_TransformedIffNormalizeAndWritable ==
    (Configured /\ Len(config.doc) = 1) =>
        /\ EntryTransformedPath(TheEntry) \in DOMAIN files
               => /\ ReadOK(TheEntry)
                  /\ NormalizeRequested(TheEntry)
                  /\ EntryTransformedPath(TheEntry) \notin unwritable
        /\ (pc = "done" /\ ReadOK(TheEntry) /\ NormalizeRequested(TheEntry)
               /\ EntryTransformedPath(TheEntry) \notin unwritable)
               => EntryTransformedPath(TheEntry) \in DOMAIN files
        /\ (pc = "transform" /\ ~NormalizeRequested(TheEntry)) => numerical_data = Raw

\* C3 witness: the run is over and the transformed file holds data lines
C3_Witness ==
    /\ exit_status = "0"
    /\ Len(config.doc) = 1
    /\ EntryTransformedPath(TheEntry) \in DOMAIN files
    /\ Len(files[EntryTransformedPath(TheEntry)]) > 1

(***************************************************************************)
(* C4.                                                                     *)
(***************************************************************************)
\* the summary file of the dataset in progress holds the header line and
\* one four-field row per non-empty series, named in filtered column order
SummaryWellFormed ==
    LET lines == files[SummaryPath]
        idx   == NonEmptyIndices(Raw)
    IN  /\ Len(lines) = 1 + Len(idx)
        /\ lines[1] = SummaryHeader
        /\ \A k \in 1..Len(idx) :
               /\ Len(Fields(lines[k + 1])) = 4
               /\ Fields(lines[k + 1])[1] = column_names[idx[k]]

C5_ParamCountIsLinesToRead ==
    (AfterSummary /\ SummaryPath \in DOMAIN files) =>
        \A k \in 2..Len(files[SummaryPath]) :
            Fields(files[SummaryPath][k])[4] = IntText(lines_to_read)

(***************************************************************************)
(* C6.                                                                     *)
(***************************************************************************)
\* C6: row truncation: with lines_to_read > 0 and more data rows than
\* that, exactly the first lines_to_read data rows are kept, in order;
\* otherwise all are kept; this is done before any cell is coerced, so with
\* lines_to_read > 0 no series is longer than lines_to_read.
C6_RowTruncation ==
    pc \in {"coerce", "summary", "normalize", "transform"} =>
        LET all == Tail(EntryTable(Val))
        IN  /\ Len(csv_data) =
                   IF Val.lines_to_read > 0 /\ Len(all) > Val.lines_to_read
                   THEN Val.lines_to_read ELSE Len(all)
            /\ \A k \in 1..Len(csv_data) : csv_data[k] = all[k]
            /\ (pc = "coerce" /\ row = 1) =>
                   \A i \in 1..Len(numerical_data) : numerical_data[i] = << >>
            /\ Val.lines_to_read > 0 =>
                   \A i \in 1..Len(numerical_data) :
                       Len(numerical_data[i]) <= Val.lines_to_read

\* C6 witness: rows were discarded and the coercion of the rest is over
C6_Witness ==
    /\ pc = "summary"
    /\ Len(csv_data) > 0
    /\ Len(csv_data) < Len(Tail(EntryTable(Val)))
    /\ \E i \in 1..Len(numerical_data) : Len(numerical_data[i]) = Len(csv_data)

(***************************************************************************)
(* C7.                                                                     *)
(***************************************************************************)
\* t is a substring of s, character for character
Contains(s, t) ==
    \E p \in 1..(Len(s) - Len(t) + 1) : SubSeq(s, p, p + Len(t) - 1) = t

\* a configured name is to be dropped
Dropped(name, terms) ==
    \E k \in 1..Len(terms) : terms[k] # << >> /\ Contains(name, terms[k])

\* the numbers of column `name` of the table a,b / 1,2 / 3,4
SeriesOf(name) ==
    IF name = <<"a">> THEN <<Rat(1, 1), Rat(3, 1)>>
    ELSE IF name = <<"b">> THEN <<Rat(2, 1), Rat(4, 1)>>
    ELSE << >>

\* C7: column filtering: column_names is the configured list without the
\* names that contain a non-empty term of do_not_include (case-sensitive),
\* order and duplicates kept; and series i is the series of column_names[i].
C7_ColumnFiltering ==
    pc \in {"read", "resolve", "coerce", "summary", "normalize", "transform"} =>
        LET orig == Val.columns.v
            kept == {i \in 1..Len(orig) : ~Dropped(orig[i], DoNotIncludeTerms(Val))}
        IN  /\ Len(column_names) = Cardinality(kept)
            /\ \A k \in 1..Len(column_names) :
                   column_names[k] =
                       orig[CHOOSE i \in kept : Cardinality({j \in kept : j <= i}) = k]
            /\ pc \in {"summary", "normalize"} =>
                   /\ Len(numerical_data) = Len(column_names)
                   /\ \A i \in 1..Len(column_names) :
                          numerical_data[i] = SeriesOf(column_names[i])

\* C7 witness: a list with an empty term and a term that drops the first
\* of two names; the one series is that of the file's second column
C7_Witness ==
    /\ pc = "summary"
    /\ Len(Val.columns.v) = 2
    /\ column_names = <<<<"b">>>>
    /\ Val.columns.v[2] = <<"b">>
    /\ \E k \in 1..Len(DoNotIncludeTerms(Val)) : DoNotIncludeTerms(Val)[k] = << >>
    /\ numerical_data = <<<<Rat(2, 1), Rat(4, 1)>>>>

(***************************************************************************)
(* C8.                                                                     *)
(***************************************************************************)
\* C8: the step taken for an entry without the columns key writes the
\* skip message and nothing else, reads no table, writes no file, and
\* leaves main at the head of the loop on the next entry, still running.
C8_MissingColumnsSkipped ==
    [][(pc = "loop" /\ it <= Len(json_data) /\ ~Val.columns.present) =>
          /\ pc' = "loop"
          /\ it' = it + 1
          /\ files' = files
          /\ console' = Append(console, Cout("Skipping", <<Val.file_name>>))
          /\ exit_status' = "running"]_vars

\* C8 witness: the first entry had no columns and the second is being read
C8_Witness ==
    /\ pc = "read"
    /\ it = 2
    /\ ~json_data[1][2].columns.present
    /\ files = NoFiles

(***************************************************************************)
(* C9.                                                                     *)
(***************************************************************************)
\* C9: exit status: 1, with no dataset processed and no file written, when
\* fewer than two arguments are given or the configuration cannot be
\* opened or parsed; in every other run the batch is processed to the end
\* and the status is 0.
C9_ExitStatus ==
    pc = "done" =>
        IF argc < 3 \/ ~config.open \/ ~config.wellformed
        THEN exit_status = "1" /\ visited = << >> /\ files = NoFiles
        ELSE exit_status = "0" /\ Len(visited) = Len(config.doc)

(***************************************************************************)
(* C10.                                                                    *)
(***************************************************************************)
\* C10 as stated: the k-th dataset processed is the k-th entry of the
\* document.
C10_DocumentOrder ==
    \A k \in 1..Len(visited) : visited[k] = config.doc[k][1]

\* C10 amended: the datasets are processed one per entry in ascending
\* order of the keys, character code by character code: every key
\* processed is a key of the document and is smaller than every key
\* processed after it or not processed yet; a run that returns 0 has
\* processed every entry.
C10_KeyOrder ==
    /\ \A k \in 1..Len(visited) :
           /\ \E j \in 1..Len(config.doc) : config.doc[j][1] = visited[k]
           /\ \A j \in 1..(k - 1) : StrLess(visited[j], visited[k])
           /\ \A j \in 1..Len(config.doc) :
                  (\A i \in 1..k : visited[i] # config.doc[j][1])
                      => StrLess(visited[k], config.doc[j][1])
    /\ exit_status = "0" => Len(visited) = Len(config.doc)

\* C10 witness: a run that returned 0 after processing the second entry
\* of the document first
C10_Witness ==
    /\ exit_status = "0"
    /\ Len(visited) = 2
    /\ visited[1] = config.doc[2][1]
    /\ visited[2] = config.doc[1][1]

(***************************************************************************)
(* C11.                                                                    *)
(***************************************************************************)
\* the subsequence of s at the positions that satisfy keep
RECURSIVE SelectAt(_, _)
SelectAt(s, keep) ==
    IF s = << >> THEN << >>
    ELSE SelectAt(SubSeq(s, 1, Len(s) - 1), keep)
         \o (IF keep[Len(s)] THEN <<s[Len(s)]>> ELSE << >>)

\* for each configured (filtered) column of an entry: its name is in the
\* header of the entry's table
InHeader(val) ==
    [i \in 1..Len(EntryColumns(val)) |->
        EntryColumns(val)[i] \in DOMAIN HeaderIndex(EntryTable(val)[1])]

\* the entry with its missing columns taken out of the configuration
WithoutMissing(val) ==
    [val EXCEPT !.columns.v = SelectAt(EntryColumns(val), InHeader(val)),
                !.other_parameters.do_not_include = AbsentSeq]

\* the transformed file of an entry whose series the writer can write
\* within bounds
EntryTransformed(val) ==
    LET data == [i \in 1..Len(EntryRaw(val)) |->
                    IF EntryRaw(val)[i] = << >> THEN << >>
                    ELSE normalizeColumn(EntryRaw(val)[i])]
    IN  <<JoinComma(EntryColumns(val))>>
        \o [r \in 1..Len(data[1]) |-> DataLine(data, r)]

\* C11: missing-column tolerance: a configured column that the header does
\* not have ends with an empty series; the series and the summary rows of
\* the other columns are those of the entry without the missing column;
\* and where that entry's transformed file can be written, the run is not
\* aborted and the data lines of the transformed file are as many.
C11_MissingColumnTolerated ==
    (Configured /\ Len(config.doc) = 1 /\ ReadOK(TheEntry)) =>
        LET without == WithoutMissing(TheEntry)
        IN  /\ pc \in {"summary", "normalize"} =>
                /\ \A i \in 1..Len(column_names) :
                       ~InHeader(TheEntry)[i] => numerical_data[i] = << >>
                /\ SelectAt(numerical_data, InHeader(TheEntry)) = EntryRaw(without)
            /\ (AfterSummary /\ SummaryPath \in DOMAIN files) =>
                   files[SummaryPath] =
                       SummaryLines(EntryColumns(without), EntryRaw(without),
                                    TheEntry.lines_to_read)
            /\ (pc = "done" /\ WriteInBounds(EntryRaw(without))) =>
                   /\ exit_status = "0"
                   /\ EntryTransformedPath(TheEntry) \in DOMAIN files =>
                          Len(files[EntryTransformedPath(TheEntry)]) =
                              Len(EntryTransformed(without))

(***************************************************************************)
(* C12. Idempotence of normalization: for every non-constant series, a     *)
(* second normalizeColumn leaves the series as the first one made it, and  *)
(* after the first pass the minimum is 0 and the maximum is 1.             *)
(***************************************************************************)
NonConstant(series) ==
    \E i, j \in 1..Len(series) : series[i] # series[j]

\* v is an element of the series and no element is less (greater, for
\* sense = -1) than it
Extreme(series, v, sense) ==
    /\ \E k \in 1..Len(series) : series[k] = v
    /\ \A k \in 1..Len(series) :
          IF sense = 1 THEN ~DblLess(series[k], v) ELSE ~DblLess(v, series[k])

SecondNormalization ==
    /\ calls = <<"normalizeColumn">>
    /\ calls' = <<"normalizeColumn", "normalizeColumn">>

C12_NormalizationIdempotent ==
    [][(SecondNormalization /\ NonConstant(argument)) =>
          /\ Extreme(column, DblZero, 1)
          /\ Extreme(column, DblFromInt(1), -1)
          /\ column' = column]_vars

C12_Witness ==
    /\ calls = <<"normalizeColumn", "normalizeColumn">>
    /\ Len(column) = MaxSeries
    /\ \E k \in 1..Len(column) : column[k] \notin {DblZero, DblFromInt(1)}

(***************************************************************************)
(* C13. Constant-column edge case: for every non-empty series whose values *)
(* are all identical, normalizeColumn sets every value to 0 and            *)
(* computeMeanAndStdDev returns a standard deviation of exactly 0.0 (the   *)
(* square root is 0.0 exactly if the number under it is).                  *)
(***************************************************************************)
LastCall == calls[Len(calls)]

ConstantArgument == calls # << >> /\ argument # << >> /\ ~NonConstant(argument)

C13_ConstantColumn ==
    ConstantArgument =>
        /\ LastCall = "normalizeColumn" =>
              column = [k \in 1..Len(argument) |-> DblZero]
        /\ LastCall = "computeMeanAndStdDev" => returned.stddev2 = DblZero

\* the half of the claim that holds: a constant series is normalized to zeros
C13_ConstantNormalizedToZeros ==
    (ConstantArgument /\ LastCall = "normalizeColumn") =>
        column = [k \in 1..Len(argument) |-> DblZero]

(***************************************************************************)
(* C14. Min-max normalization: for every non-empty series with max > min,  *)
(* normalizeColumn replaces each value v by (v - min) / (max - min), min   *)
(* and max being those of the series before the call; every resulting      *)
(* value lies in [0, 1], each occurrence of the minimum becomes 0 and each *)
(* occurrence of the maximum becomes 1; the series keeps its length and    *)
(* the order of its elements, and an empty series is left unchanged.       *)
(***************************************************************************)
DblOne == DblFromInt(1)

\* after is before rescaled by its least element lo and greatest element hi
RescaledBy(before, after, lo, hi) ==
    \A k \in 1..Len(before) :
        /\ after[k] = DblDiv(DblSub(before[k], lo), DblSub(hi, lo))
        /\ ~DblLess(after[k], DblZero)
        /\ ~DblLess(DblOne, after[k])
        /\ before[k] = lo => after[k] = DblZero
        /\ before[k] = hi => after[k] = DblOne

C14_MinMaxNormalization ==
    (calls # << >> /\ LastCall = "normalizeColumn") =>
        /\ Len(column) = Len(argument)
        /\ argument = << >> => column = << >>
        /\ NonConstant(argument) =>
              \E i, j \in 1..Len(argument) :
                  /\ Extreme(argument, argument[i], 1)
                  /\ Extreme(argument, argument[j], -1)
                  /\ RescaledBy(argument, column, argument[i], argument[j])

C14_Witness ==
    /\ calls = <<"normalizeColumn">>
    /\ Len(argument) = MaxSeries
    /\ \E k \in 1..Len(column) : column[k] \notin {DblZero, DblOne}

(***************************************************************************)
(* C19. computeMeanAndStdDev: for a non-empty series of n values the mean  *)
(* is (sum of x_i) / n and the standard deviation is the square root of    *)
(* (sum of x_i squared) / n - mean squared, the population formula that    *)
(* divides by n and not by n - 1; for the empty series both are 0.0 and    *)
(* nothing is divided; the series is not modified.                         *)
(***************************************************************************)
\* x_1 + ... + x_k, or the sum of the squares, added from the front
RECURSIVE SumOfFirst(_, _, _)
SumOfFirst(series, k, squared) ==
    LET term == IF squared THEN DblMul(series[k], series[k]) ELSE series[k]
    IN  IF k = 1 THEN term ELSE DblAdd(SumOfFirst(series, k - 1, squared), term)

PopulationMean(series) ==
    DblDiv(SumOfFirst(series, Len(series), FALSE), DblFromInt(Len(series)))

PopulationVariance(series) ==
    DblSub(DblDiv(SumOfFirst(series, Len(series), TRUE), DblFromInt(Len(series))),
           DblMul(PopulationMean(series), PopulationMean(series)))

AllDigits(t) == \A k \in 1..Len(t) : IsDigit(t[k])

\* digits, a point, two digits
TwoDecimals(t) ==
    /\ Len(t) >= 4
    /\ t[Len(t) - 2] = "."
    /\ AllDigits(SubSeq(t, 1, Len(t) - 3))
    /\ AllDigits(SubSeq(t, Len(t) - 1, Len(t)))

\* the series of an entry as the writer is given them
EntryNormalized(val) ==
    [i \in 1..Len(EntryRaw(val)) |-> normalizeColumn(EntryRaw(val)[i])]

\* the transformed file of the one entry, once it is written whole
TransformedWritten ==
    /\ Configured /\ Len(config.doc) = 1 /\ pc = "done" /\ exit_status = "0"
    /\ EntryTransformedPath(TheEntry) \in DOMAIN files
    /\ WriteInBounds(EntryNormalized(TheEntry))

TransformedFile == files[EntryTransformedPath(TheEntry)]

\* P(field, value) for every field of every data line of the transformed
\* file and the element of the series it was written from
EveryWritten(P(_, _)) ==
    \A r \in 1..(Len(TransformedFile) - 1) :
        \A c \in 1..Len(EntryNormalized(TheEntry)) :
            P(Fields(TransformedFile[r + 1])[c], EntryNormalized(TheEntry)[c][r])

FieldTwoDecimals(t, v) == TwoDecimals(t)

RECURSIVE LeadingZeros(_)
LeadingZeros(t) ==
    IF t # << >> /\ Head(t) = "0" THEN 1 + LeadingZeros(Tail(t)) ELSE 0

\* t writes a value v of [0, 1] as the stream's default format does: a
\* whole number without a point, otherwise 0. and decimals of which at most
\* six are significant and the last is not 0, off by at most half a unit
\* of the sixth significant digit
ShortestSixDigits(t, v) ==
    /\ \/ t \in {<<"0">>, <<"1">>}
       \/ /\ Len(t) >= 3 /\ SubSeq(t, 1, 2) = <<"0", ".">>
          /\ AllDigits(SubSeq(t, 3, Len(t)))
          /\ t[Len(t)] # "0"
          /\ Len(t) - 2 - LeadingZeros(SubSeq(t, 3, Len(t))) <= 6
    /\ Stod(t).kind = "value"
    /\ LET diff == RatSub(Stod(t).v, v)
       IN  ~RatLess(v, RatMul(Rat(200000, 1), diff))
           /\ ~RatLess(v, RatMul(Rat(-200000, 1), diff))

EntryRows(val) == EnforceLines(Tail(EntryTable(val)), val.lines_to_read)

\* the cell of considered row r in configured column c is a number
CellParsed(val, r, c) ==
    CellOutcome(EntryRows(val)[r], EntryColumns(val)[c],
                HeaderIndex(EntryTable(val)[1])).kind = "value"

\* the place in the series of column c of the value of considered row r
PlaceInSeries(val, r, c) ==
    Cardinality({q \in 1..r : CellParsed(val, q, c)})

\* the one entry's transformed file is written and the run went on
TransformedKept ==
    /\ Configured /\ Len(config.doc) = 1 /\ ReadOK(TheEntry)
    /\ pc = "done" /\ exit_status = "0"
    /\ EntryTransformedPath(TheEntry) \in DOMAIN files

C16_RowStructure ==
    TransformedKept =>
        /\ Len(TransformedFile) = 1 + Len(EntryRows(TheEntry))
        /\ \A r \in 1..Len(EntryRows(TheEntry)) :
              \A c \in 1..Len(EntryColumns(TheEntry)) :
                  CellParsed(TheEntry, r, c) =>
                      Fields(TransformedFile[r + 1])[c] =
                          DefaultFormat(EntryNormalized(TheEntry)[c]
                                            [PlaceInSeries(TheEntry, r, c)])

\* what holds where no cell of the considered rows was skipped
C16_RowStructureWithoutSkips ==
    (TransformedKept
        /\ \A r \in 1..Len(EntryRows(TheEntry)) :
              \A c \in 1..Len(EntryColumns(TheEntry)) : CellParsed(TheEntry, r, c))
    => /\ Len(TransformedFile) = 1 + Len(EntryRows(TheEntry))
       /\ \A r \in 1..Len(EntryRows(TheEntry)) :
             \A c \in 1..Len(EntryColumns(TheEntry)) :
                 Fields(TransformedFile[r + 1])[c] =
                     DefaultFormat(EntryNormalized(TheEntry)[c][r])

(***************************************************************************)
(* C17. Header resolution: when a name occurs more than once in the header *)
(* of the file, every configured column of that name is resolved to the    *)
(* position of the first occurrence, and its series is built from the      *)
(* cells of that position.                                                 *)
(***************************************************************************)
\* the positions (from 1) of a name in a header
Positions(header, name) == {k \in 1..Len(header) : header[k] = name}

FirstOf(S) == CHOOSE k \in S : \A j \in S : k <= j

LastOf(S) == CHOOSE k \in S : \A j \in S : j <= k

\* the numbers among the cells at position k of the rows, in row order
RECURSIVE ParsedAt(_, _)
ParsedAt(rows, k) ==
    IF rows = << >> THEN << >>
    ELSE ParsedAt(SubSeq(rows, 1, Len(rows) - 1), k)
         \o (IF k <= Len(rows[Len(rows)]) /\ Stod(rows[Len(rows)][k]).kind = "value"
             THEN <<Stod(rows[Len(rows)][k]).v>> ELSE << >>)

\* the rows of the one entry are coerced
Coerced ==
    /\ Configured /\ Len(config.doc) = 1 /\ ReadOK(TheEntry)
    /\ pc = "summary"

\* every series of a name that the header has is built from the cells at
\* the position Pick chooses among the positions of the name
SeriesFrom(Pick(_)) ==
    \A c \in 1..Len(column_names) :
        Positions(EntryTable(TheEntry)[1], column_names[c]) # {} =>
            numerical_data[c] =
                ParsedAt(EntryRows(TheEntry),
                         Pick(Positions(EntryTable(TheEntry)[1], column_names[c])))

C17_FirstOccurrence == Coerced => SeriesFrom(FirstOf)

\* C17, amended: a configured column whose name occurs more than once in
\* the header is resolved to the position of the last occurrence
C17_LastOccurrence == Coerced => SeriesFrom(LastOf)

C17_Witness ==
    /\ Coerced
    /\ Cardinality(Positions(EntryTable(TheEntry)[1], column_names[1])) = 2
    /\ Len(numerical_data[1]) = MaxSeries
    /\ numerical_data[1] # ParsedAt(EntryRows(TheEntry), 1)

(***************************************************************************)
(* C18. Coercion skips and does not zero-fill: the series of a resolved    *)
(* column consists of exactly the parsed values of its cells that parse,   *)
(* in row order; a cell that is no number, or a number out of range,       *)
(* appends nothing and emits a diagnostic of its own kind, and the cells   *)
(* and rows after it are coerced all the same; hence no series is longer   *)
(* than the considered rows are many.                                      *)
(***************************************************************************)
\* the position (from 1) of the cells of configured column c, 0 if the
\* header does not have the name
CellPosition(c) ==
    IF Positions(EntryTable(TheEntry)[1], column_names[c]) = {} THEN 0
    ELSE LastOf(Positions(EntryTable(TheEntry)[1], column_names[c]))

\* the cells of the considered rows, row by row and column by column:
\* [text, kind], kind being what std::stod makes of the text
CellsInOrder ==
    [t \in 1..(Len(EntryRows(TheEntry)) * Len(column_names)) |->
        LET r    == ((t - 1) \div Len(column_names)) + 1
            k    == CellPosition(((t - 1) % Len(column_names)) + 1)
            have == k >= 1 /\ k <= Len(EntryRows(TheEntry)[r])
        IN  [text |-> IF have THEN EntryRows(TheEntry)[r][k] ELSE << >>,
             kind |-> IF have THEN Stod(EntryRows(TheEntry)[r][k]).kind
                      ELSE "not_found"]]

\* the diagnostics `what` on the console are those of the cells of a kind
DiagnosedAs(what, kind) ==
    LET said  == SelectSeq(console, LAMBDA m : m.what = what)
        cells == SelectSeq(CellsInOrder, LAMBDA x : x.kind = kind)
    IN  said = [t \in 1..Len(cells) |->
                   Cerr(what, <<cells[t].text, TheEntry.file_name>>)]

C18_CoercionSkips ==
    Coerced =>
        /\ \A c \in 1..Len(column_names) :
              /\ CellPosition(c) >= 1 =>
                    numerical_data[c] = ParsedAt(EntryRows(TheEntry), CellPosition(c))
              /\ Len(numerical_data[c]) <= Len(EntryRows(TheEntry))
        /\ DiagnosedAs("Warning: Could not convert", "invalid_argument")
        /\ DiagnosedAs("Warning: Value out of range", "out_of_range")

\* a cell that is no number, then one out of range, then a number: the
\* series holds the one value, and both diagnostics were emitted
C18_Witness ==
    /\ Coerced
    /\ Len(EntryRows(TheEntry)) = MaxSeries
    /\ \E c \in 1..Len(column_names) :
          /\ Len(numerical_data[c]) = 1
          /\ Stod(EntryRows(TheEntry)[MaxSeries][CellPosition(c)]).kind = "value"
    /\ \E m \in 1..Len(console) : console[m].what = "Warning: Could not convert"
    /\ \E m \in 1..Len(console) : console[m].what = "Warning: Value out of range"

(***************************************************************************)
(* C20. Short rows are tolerated: for a data row and a configured column   *)
(* whose resolved header index is not less than the number of fields of    *)
(* the row, no cell is read, nothing is appended to the series of the      *)
(* column, a diagnostic is emitted, and the remaining columns and rows are *)
(* processed.                                                              *)
(***************************************************************************)
\* the row in progress has no field at the index of configured column i
TooShortFor(i) ==
    /\ column_names[i] \in DOMAIN header_index
    /\ header_index[column_names[i]] >= Len(csv_data[row])

\* the name has no field in the row in progress, or is not in the header
WithoutField(name) ==
    ~(name \in DOMAIN header_index /\ header_index[name] < Len(csv_data[row]))

C20_ShortRowsTolerated ==
    [][pc = "coerce" =>
          /\ \A i \in 1..Len(column_names) :
                IF TooShortFor(i) THEN numerical_data'[i] = numerical_data[i]
                ELSE column_names[i] \in DOMAIN header_index =>
                        LET o == Stod(csv_data[row][header_index[column_names[i]] + 1])
                        IN  numerical_data'[i] =
                                IF o.kind = "value" THEN Append(numerical_data[i], o.v)
                                ELSE numerical_data[i]
          /\ SelectSeq(SubSeq(console', Len(console) + 1, Len(console')),
                       LAMBDA m : m.what = "Warning: Column not found")
                = LET short == SelectSeq(column_names, WithoutField)
                  IN  [t \in 1..Len(short) |->
                          Cerr("Warning: Column not found", <<short[t], csv_file_name>>)]
          /\ row' = row + 1
          /\ pc' = IF row < Len(csv_data) THEN "coerce" ELSE "summary"
          /\ exit_status' = "running"]_vars

\* the rows 4 and 1,2 under the columns a, b: the first row is too short
\* for b, and a and the second row were coerced all the same
C20_Witness ==
    /\ pc = "summary"
    /\ column_names = <<<<"a">>, <<"b">>>>
    /\ csv_data = <<<<<<"4">>>>, <<<<"1">>, <<"2">>>>>>
    /\ numerical_data = <<<<Rat(4, 1), Rat(1, 1)>>, <<Rat(2, 1)>>>>
    /\ \E m \in 1..Len(console) :
          console[m] = Cerr("Warning: Column not found", <<<<"b">>, csv_file_name>>)

(***************************************************************************)
(* C21. Column-resolution diagnostics are per occurrence and not           *)
(* deduplicated: for a dataset with R considered rows and M filtered       *)
(* configured columns absent from the header, exactly R x M                *)
(* column-not-found diagnostics are emitted, one per row per missing       *)
(* column, and none when there are no data rows.                           *)
(***************************************************************************)
\* the configured columns (by place) whose name the header does not have
MissingColumns == {c \in 1..Len(column_names) : CellPosition(c) = 0}

\* the column-not-found diagnostics on the console
NotFoundSaid ==
    SelectSeq(console, LAMBDA m : m.what = "Warning: Column not found")

\* the rows and columns of the header where the row has no field for the
\* column
ShortCells ==
    {rc \in (1..Len(EntryRows(TheEntry))) \X (1..Len(column_names)) :
        /\ CellPosition(rc[2]) >= 1
        /\ CellPosition(rc[2]) > Len(EntryRows(TheEntry)[rc[1]])}

WriterCalled ==
    pc = "transform" /\ normalize /\ TransformedPath \notin unwritable

C22_WriterInBounds ==
    WriterCalled =>
        /\ Len(numerical_data) >= 1
        /\ \A c \in 1..Len(numerical_data) :
              \A r \in 1..Len(numerical_data[1]) : r <= Len(numerical_data[c])

(***************************************************************************)
(* C23. A skipped dataset leaves the output untouched: when a dataset is   *)
(* skipped because its entry lacks columns, or because its table file      *)
(* cannot be opened or contains no lines, no summary file and no           *)
(* transformed file is created or overwritten for it, and the files        *)
(* written for earlier datasets are unchanged.                             *)
(***************************************************************************)
\* the entry has no columns, or its table is not on the disk or is empty
ToBeSkipped(val) ==
    \/ ~val.columns.present
    \/ FullPath(data_directory, val.file_name) \notin DOMAIN disk
    \/ disk[FullPath(data_directory, val.file_name)] = << >>

\* main is in the iteration of an entry, before the table is looked at
AtEntry == pc \in {"loop", "read"} /\ it <= Len(json_data)

\* every step of the iteration of such an entry leaves the files as they
\* are and does not reach the steps that write; the iteration ends at the
\* head of the loop, on the next entry
C23_SkippedLeavesOutput ==
    [][(AtEntry /\ ToBeSkipped(Val)) =>
          /\ files' = files
          /\ pc' \in {"loop", "read"}
          /\ pc' = "loop" => it' = it + 1
          /\ exit_status' = "running"]_vars

\* the first dataset was written, the second, whose table has no lines,
\* was skipped, and the files are those of the first
C23_Witness ==
    /\ pc = "done" /\ exit_status = "0"
    /\ Len(json_data) = 2
    /\ json_data[2][2].columns.present
    /\ FullPath(data_directory, json_data[2][2].file_name) \in DOMAIN disk
    /\ ToBeSkipped(json_data[2][2])
    /\ ~ToBeSkipped(json_data[1][2])
    /\ DOMAIN files = {EntrySummaryPath(json_data[1][2]),
                       EntryTransformedPath(json_data[1][2])}


====
